---- MODULE Spec2Model ----
(***************************************************************************)
(* Model of the X-Agent retrieval-and-generation pipeline                  *)
(* (src/x_agent/agent_core.py, news_fetcher.py, populate_db.py).           *)
(*                                                                         *)
(* Python values are modelled as follows.                                  *)
(*   - a str that is scanned character by character (a model response, an  *)
(*     article body) is a sequence of one-character strings;               *)
(*   - a str that is only compared or tested for emptiness (a title, a     *)
(*     URL, a stored tweet text) is a TLA+ string;                         *)
(*   - a value that may be None is wrapped: Nothing for None, Just(v) for  *)
(*     the value v.                                                        *)
(* The external services (newspaper download, sentence-transformers        *)
(* encode, the Chroma query, ollama.chat) are the environment: each call   *)
(* takes its outcome from a small set chosen with \E.                      *)
(***************************************************************************)
EXTENDS Integers, Sequences, FiniteSets, TLC

VARIABLES
    newsapi,            \* agent.news_fetcher.newsapi is not None
    embedding_model,    \* agent.embedding_model is not None
    chroma_collection,  \* Nothing, or Just(the stored items of the collection)
    ollama_available,   \* agent.ollama_available
    last,               \* the latest completed call of an agent method
    chat_issued,        \* an ollama.chat request was issued since construction
    pc,                 \* position of the caller (library use or the script)
    run,                \* locals of the interactive script
    resp,               \* the response text the generation service will give
    article,            \* the article body that will be submitted
    boot,               \* what the environment answered during construction
    pop                 \* the population script: its locals and the database

vars == <<newsapi, embedding_model, chroma_collection, ollama_available,
          last, chat_issued, pc, run, resp, article, boot, pop>>

agent_flags == <<newsapi, embedding_model, chroma_collection, ollama_available,
                 boot>>

----------------------------------------------------------------------------
(* Bounds *)

MaxItems == 2       \* stored items in the collection
MaxK == 3           \* largest n_results tried
MaxChunks == 5      \* chunks per generated response text
TruncSlack == 3     \* article lengths tried on each side of the limit

----------------------------------------------------------------------------
(* None and truthiness *)

Nothing == <<>>
Just(v) == <<v>>
IsNone(o) == o = <<>>

\* `not x` is False: x is a non-empty str
TruthyStr(o) == o # <<>> /\ o[1] # ""
\* `not x` is False: x is a non-empty sequence (a list, or a str of characters)
TruthySeq(o) == o # <<>> /\ Len(o[1]) > 0

Min(a, b) == IF a <= b THEN a ELSE b

----------------------------------------------------------------------------
(* Output cleaning: re.sub(r"<think>.*?</think>\s*", "", raw.strip(),      *)
(*                         flags=re.DOTALL).strip()                        *)

OPEN == <<"<", "t", "h", "i", "n", "k", ">">>
CLOSE == <<"<", "/", "t", "h", "i", "n", "k", ">">>

\* the whitespace characters of the inputs (str.isspace)
IsSpace(c) == c \in {" ", "\n"}

\* the pattern p occurs in s at index i
MatchAt(s, i, p) ==
    /\ i + Len(p) - 1 <= Len(s)
    /\ SubSeq(s, i, i + Len(p) - 1) = p

\* least index >= i at which p occurs in s, 0 when there is none
RECURSIVE Find(_, _, _)
Find(s, i, p) ==
    IF i + Len(p) - 1 > Len(s) THEN 0
    ELSE IF MatchAt(s, i, p) THEN i
    ELSE Find(s, i + 1, p)

\* least index >= i of a non-whitespace character, Len(s) + 1 when none
RECURSIVE SkipSpace(_, _)
SkipSpace(s, i) ==
    IF i > Len(s) THEN i
    ELSE IF IsSpace(s[i]) THEN SkipSpace(s, i + 1)
    ELSE i

\* greatest index >= i at which p occurs in s, 0 when there is none
RECURSIVE FindLast(_, _, _)
FindLast(s, i, p) ==
    IF i + Len(p) - 1 > Len(s) THEN 0
    ELSE LET later == FindLast(s, i + 1, p)
         IN IF later # 0 THEN later
            ELSE IF MatchAt(s, i, p) THEN i ELSE 0

\* variant of MatchEnd: markers nest, an opening marker inside the span takes
\* the first closing marker and the span runs to the closing marker after it
MatchEnd_nested(s, i) ==
    IF ~MatchAt(s, i, OPEN) THEN 0
    ELSE LET c == Find(s, i + Len(OPEN), CLOSE)
             inner == Find(s, i + Len(OPEN), OPEN)
             outer == IF c = 0 THEN 0 ELSE Find(s, c + Len(CLOSE), CLOSE)
         IN IF c = 0 THEN 0
            ELSE IF inner # 0 /\ inner < c /\ outer # 0
            THEN SkipSpace(s, outer + Len(CLOSE))
            ELSE SkipSpace(s, c + Len(CLOSE))

\* variant of MatchEnd: greedy ".*", up to the last "</think>"
MatchEnd_greedy(s, i) ==
    IF ~MatchAt(s, i, OPEN) THEN 0
    ELSE LET c == FindLast(s, i + Len(OPEN), CLOSE)
         IN IF c = 0 THEN 0 ELSE SkipSpace(s, c + Len(CLOSE))

\* end (exclusive) of the regex match that starts at i, 0 when none starts there:
\* "<think>", lazily anything up to the first "</think>", then greedy \s*
MatchEnd(s, i) ==
    IF ~MatchAt(s, i, OPEN) THEN 0
    ELSE LET c == Find(s, i + Len(OPEN), CLOSE)
         IN IF c = 0 THEN 0 ELSE SkipSpace(s, c + Len(CLOSE))

\* re.sub from index i: non-overlapping matches, leftmost first
RECURSIVE SubFrom(_, _)
SubFrom(s, i) ==
    IF i > Len(s) THEN <<>>
    ELSE LET e == MatchEnd(s, i)
         IN IF e # 0 THEN SubFrom(s, e)
            ELSE <<s[i]>> \o SubFrom(s, i + 1)

ReSub(s) == SubFrom(s, 1)

RECURSIVE LStrip(_)
LStrip(s) ==
    IF s # <<>> /\ IsSpace(Head(s)) THEN LStrip(Tail(s)) ELSE s

RECURSIVE RStrip(_)
RStrip(s) ==
    IF s # <<>> /\ IsSpace(s[Len(s)]) THEN RStrip(SubSeq(s, 1, Len(s) - 1)) ELSE s

Strip(s) == RStrip(LStrip(s))

CleanResponse(raw) == Strip(ReSub(Strip(raw)))

----------------------------------------------------------------------------
(* Embedding provider and vector store (external; the environment decides  *)
(* whether a call succeeds)                                                 *)

\* texts stored by population, and the query strings tried
TweetTexts == {"A", "B"}
Titles == {"", "T1", "T2"}

\* SentenceTransformer.encode: deterministic, one vector per text; a vector is
\* abstracted to a point on a line
Encode(t) ==
    CASE t = "A" -> 0
      [] t = "B" -> 3
      [] t = "T1" -> 1
      [] t = "T2" -> 4
      [] OTHER -> 2

Dist(a, b) == IF a >= b THEN a - b ELSE b - a

\* populate_vector_db: ids tweet_0.., metadata {"text": tweet}, embeddings from
\* the same model
StoredItems(tweets) ==
    [i \in 1..Len(tweets) |->
        [id |-> i - 1, embedding |-> Encode(tweets[i]), text |-> tweets[i]]]

SeqsUpTo(S, n) == UNION {[1..m -> S] : m \in 0..n}

Collections == {StoredItems(ts) : ts \in SeqsUpTo(TweetTexts, MaxItems)}

\* items in order of non-decreasing distance to q (insertion order on ties)
RECURSIVE Ranked(_, _)
Ranked(items, q) ==
    IF items = <<>> THEN <<>>
    ELSE LET best == CHOOSE i \in 1..Len(items) :
                        \A j \in 1..Len(items) :
                            \/ Dist(items[i].embedding, q) < Dist(items[j].embedding, q)
                            \/ /\ Dist(items[i].embedding, q) = Dist(items[j].embedding, q)
                               /\ i <= j
             rest == [j \in 1..(Len(items) - 1) |->
                        IF j < best THEN items[j] ELSE items[j + 1]]
         IN <<items[best]>> \o Ranked(rest, q)

\* collection.query(query_embeddings=[q], n_results=k, include=["metadatas"]):
\* one inner list (one query embedding) of the metadata of the k nearest items,
\* all of them when fewer than k are stored
StoreQuery(items, q, k) ==
    LET r == Ranked(items, q)
    IN [metadatas |-> << [i \in 1..Min(k, Len(r)) |-> [text |-> r[i].text]] >>]

\* the nested loops that collect item_metadata["text"]
RECURSIVE Flatten(_)
Flatten(outer) ==
    IF outer = <<>> THEN <<>>
    ELSE [i \in 1..Len(Head(outer)) |-> Head(outer)[i].text] \o Flatten(Tail(outer))

ExtractTexts(results) ==
    IF results.metadatas # <<>> THEN Flatten(results.metadatas) ELSE <<>>

EncodeOutcomes == {"ok", "empty", "raise"}
QueryOutcomes == {"ok", "raise"}

\* variant of find_relevant_tweets: the guard tests the collection only
find_relevant_tweets_collection_only(collection, model, query_text, n_results, enc, qry) ==
    IF IsNone(collection)
    THEN [ret |-> <<>>, ext |-> <<>>, raised |-> FALSE, log |-> "not initialized"]
    ELSE IF enc = "raise" \/ ~model
    THEN [ret |-> <<>>, ext |-> <<"encode">>, raised |-> FALSE,
          log |-> "Error querying ChromaDB"]
    ELSE IF enc = "empty"
    THEN [ret |-> <<>>, ext |-> <<"encode">>, raised |-> FALSE,
          log |-> "Failed to generate query embedding"]
    ELSE IF qry = "raise" \/ n_results <= 0
    THEN [ret |-> <<>>, ext |-> <<"encode", "query">>, raised |-> FALSE,
          log |-> "Error querying ChromaDB"]
    ELSE LET results == StoreQuery(collection[1], Encode(query_text), n_results)
         IN [ret |-> ExtractTexts(results), ext |-> <<"encode", "query">>,
             raised |-> FALSE, log |-> "Found"]

\* variant of find_relevant_tweets: the query asks for one more result
find_relevant_tweets_one_more(collection, model, query_text, n_results, enc, qry) ==
    IF IsNone(collection) \/ ~model
    THEN [ret |-> <<>>, ext |-> <<>>, raised |-> FALSE, log |-> "not initialized"]
    ELSE IF enc = "raise"
    THEN [ret |-> <<>>, ext |-> <<"encode">>, raised |-> FALSE,
          log |-> "Error querying ChromaDB"]
    ELSE IF enc = "empty"
    THEN [ret |-> <<>>, ext |-> <<"encode">>, raised |-> FALSE,
          log |-> "Failed to generate query embedding"]
    ELSE IF qry = "raise" \/ n_results <= 0
    THEN [ret |-> <<>>, ext |-> <<"encode", "query">>, raised |-> FALSE,
          log |-> "Error querying ChromaDB"]
    ELSE LET results == StoreQuery(collection[1], Encode(query_text),
                                   n_results + 1)
         IN [ret |-> ExtractTexts(results), ext |-> <<"encode", "query">>,
             raised |-> FALSE, log |-> "Found"]

\* TweetGeneratorAgent.find_relevant_tweets; enc and qry are the outcomes of
\* the two external calls
find_relevant_tweets(collection, model, query_text, n_results, enc, qry) ==
    IF IsNone(collection) \/ ~model
    THEN [ret |-> <<>>, ext |-> <<>>, raised |-> FALSE, log |-> "not initialized"]
    ELSE IF enc = "raise"
    THEN [ret |-> <<>>, ext |-> <<"encode">>, raised |-> FALSE,
          log |-> "Error querying ChromaDB"]
    ELSE IF enc = "empty"
    THEN [ret |-> <<>>, ext |-> <<"encode">>, raised |-> FALSE,
          log |-> "Failed to generate query embedding"]
    ELSE IF qry = "raise" \/ n_results <= 0
    THEN [ret |-> <<>>, ext |-> <<"encode", "query">>, raised |-> FALSE,
          log |-> "Error querying ChromaDB"]
    ELSE LET results == StoreQuery(collection[1], Encode(query_text), n_results)
         IN [ret |-> ExtractTexts(results), ext |-> <<"encode", "query">>,
             raised |-> FALSE, log |-> "Found"]

----------------------------------------------------------------------------
(* Generation step                                                          *)

max_content_length == 2000
ELLIPSIS == <<".", ".", ".">>
NO_EXAMPLES ==
    "No specifically relevant past examples found. Please generate content based on your core style."

\* variant of Truncate: cuts at the limit itself
Truncate_at_limit(content) ==
    IF Len(content) >= max_content_length
    THEN SubSeq(content, 1, max_content_length) \o ELLIPSIS
    ELSE content

\* full_article_content[:max_content_length] + "..." when longer than the limit
Truncate(content) ==
    IF Len(content) > max_content_length
    THEN SubSeq(content, 1, max_content_length) \o ELLIPSIS
    ELSE content

\* variant of ExampleTweetsStr: the placeholder only when the list is None
ExampleTweetsStr_none_only(tweets) ==
    IF ~IsNone(tweets)
    THEN [i \in 1..Len(tweets[1]) |-> <<"- \"", tweets[1][i], "\"">>]
    ELSE << <<NO_EXAMPLES>> >>

\* example_tweets_str, as its lines: one quoted bullet per tweet, or the
\* placeholder sentence when the list is None or empty
ExampleTweetsStr(tweets) ==
    IF TruthySeq(tweets)
    THEN [i \in 1..Len(tweets[1]) |-> <<"- \"", tweets[1][i], "\"">>]
    ELSE << <<NO_EXAMPLES>> >>

\* prompt_template.format(...): the template text is fixed, the prompt is
\* determined by the three values substituted into it
DraftPrompt(title, content, tweets) ==
    [template |-> "draft",
     example_tweets_formatted |-> ExampleTweetsStr(tweets),
     article_title |-> title,
     article_content |-> Truncate(content)]

ImagePrompt(title, tweet_text) ==
    [template |-> "image", article_title |-> title, tweet_text |-> tweet_text]

\* outcomes of ollama.chat: the call raises, the response lacks
\* ["message"]["content"], or it carries a text
ChatRaise == [kind |-> "raise", content |-> <<>>]
ChatMalformed == [kind |-> "malformed", content |-> <<>>]
ChatOk(raw) == [kind |-> "ok", content |-> raw]

\* the try block around ollama.chat, shared by both generation methods
\* variant of ChatAndClean: a response without message content counts as an
\* empty text
ChatAndClean_malformed_empty(chat) ==
    IF chat.kind = "ok" THEN Just(CleanResponse(chat.content))
    ELSE IF chat.kind = "malformed" THEN Just(<<>>)
    ELSE Nothing

ChatAndClean(chat) ==
    IF chat.kind = "ok" THEN Just(CleanResponse(chat.content)) ELSE Nothing

\* variant of generate_tweet_draft: no availability check
generate_tweet_draft_unchecked(available, title, content, tweets, chat) ==
    IF IsNone(content)
    THEN [ret |-> Nothing, ext |-> <<>>, raised |-> TRUE, prompt |-> Nothing,
          answer |-> "none"]
    ELSE [ret |-> ChatAndClean(chat), ext |-> <<"chat">>, raised |-> FALSE,
          prompt |-> Just(DraftPrompt(title, content[1], tweets)),
          answer |-> chat.kind]

\* TweetGeneratorAgent.generate_tweet_draft; content is Nothing for None;
\* answer records how the generation service answered, "none" when not asked
generate_tweet_draft(available, title, content, tweets, chat) ==
    IF ~available
    THEN [ret |-> Nothing, ext |-> <<>>, raised |-> FALSE, prompt |-> Nothing,
          answer |-> "none"]
    ELSE IF IsNone(content)
    THEN \* len(None): TypeError outside the try block
         [ret |-> Nothing, ext |-> <<>>, raised |-> TRUE, prompt |-> Nothing,
          answer |-> "none"]
    ELSE [ret |-> ChatAndClean(chat), ext |-> <<"chat">>, raised |-> FALSE,
          prompt |-> Just(DraftPrompt(title, content[1], tweets)),
          answer |-> chat.kind]

\* TweetGeneratorAgent.generate_image_prompt
generate_image_prompt(available, title, tweet_text, chat) ==
    IF ~available
    THEN [ret |-> Nothing, ext |-> <<>>, raised |-> FALSE, prompt |-> Nothing,
          answer |-> "none"]
    ELSE [ret |-> ChatAndClean(chat), ext |-> <<"chat">>, raised |-> FALSE,
          prompt |-> Just(ImagePrompt(title, tweet_text)),
          answer |-> chat.kind]

----------------------------------------------------------------------------
(* Article fetcher                                                          *)

\* outcomes of Article(url).download() / parse(): an exception, or a text
FetchRaise == [kind |-> "raise", text |-> <<>>]
FetchOk(text) == [kind |-> "ok", text |-> text]

\* variant of get_full_article_content: no try/except around download/parse
get_full_article_content_uncaught(article_url, fetch) ==
    IF ~TruthyStr(article_url)
    THEN [ret |-> Nothing, ext |-> <<>>, raised |-> FALSE, download |-> "none"]
    ELSE IF fetch.kind = "raise"
    THEN [ret |-> Nothing, ext |-> <<"download">>, raised |-> TRUE,
          download |-> "raise"]
    ELSE [ret |-> Just(fetch.text), ext |-> <<"download">>, raised |-> FALSE,
          download |-> "ok"]

\* NewsFetcher.get_full_article_content; download records how the download
\* went, "none" when it was not attempted
get_full_article_content(article_url, fetch) ==
    IF ~TruthyStr(article_url)
    THEN [ret |-> Nothing, ext |-> <<>>, raised |-> FALSE, download |-> "none"]
    ELSE IF fetch.kind = "raise"
    THEN [ret |-> Nothing, ext |-> <<"download">>, raised |-> FALSE,
          download |-> "raise"]
    ELSE [ret |-> Just(fetch.text), ext |-> <<"download">>, raised |-> FALSE,
          download |-> "ok"]

\* the result of generate_tweet_from_selected_article when it stops before
\* retrieval
Stopped(f, raised, fetched, log) ==
    [ret |-> Nothing, ext |-> f.ext, raised |-> raised,
     full_content |-> f.ret, fetched |-> fetched, download |-> f.download,
     relevant_tweets |-> Nothing, prompt |-> Nothing, answer |-> "none",
     retrieval |-> "none", log |-> log]

NotFetched == [ret |-> Nothing, ext |-> <<>>, raised |-> FALSE, download |-> "none"]

\* the result of generate_tweet_from_selected_article after retrieval r and
\* draft d
Drafted(f, r, d) ==
    [ret |-> d.ret, ext |-> f.ext \o r.ext \o d.ext,
     raised |-> d.raised, full_content |-> f.ret,
     fetched |-> TRUE, download |-> f.download,
     relevant_tweets |-> Just(r.ret),
     prompt |-> d.prompt, answer |-> d.answer, retrieval |-> r.log,
     log |-> "Successfully fetched full content"]

\* variant of generate_tweet_from_selected_article: the fetched content is
\* passed on unchecked
generate_tweet_from_selected_article_unchecked(collection, model, available, article_url, article_title, fetch, enc, qry, chat) ==
    IF ~TruthyStr(article_url) \/ ~TruthyStr(article_title)
    THEN Stopped(NotFetched, FALSE, FALSE, "Article URL and title are required.")
    ELSE LET f == get_full_article_content(article_url, fetch)
             r == find_relevant_tweets(collection, model,
                                       article_title[1], 3, enc, qry)
             d == generate_tweet_draft(available, article_title, f.ret,
                                       Just(r.ret), chat)
         IN Drafted(f, r, d)

\* variant of generate_tweet_from_selected_article: a failed download is
\* tried once more
generate_tweet_from_selected_article_retry(collection, model, available, article_url, article_title, fetch, enc, qry, chat) ==
    IF ~TruthyStr(article_url) \/ ~TruthyStr(article_title)
    THEN Stopped(NotFetched, FALSE, FALSE, "Article URL and title are required.")
    ELSE LET f == get_full_article_content(article_url, fetch)
         IN IF f.raised
            THEN Stopped(f, TRUE, TRUE, "")
            ELSE IF ~TruthySeq(f.ret)
            THEN Stopped([f EXCEPT !.ext = @ \o @], FALSE, TRUE,
                         "Could not retrieve full content. Cannot generate tweet.")
            ELSE LET r == find_relevant_tweets(collection, model,
                                               article_title[1], 3, enc, qry)
                     d == generate_tweet_draft(available, article_title, f.ret,
                                               Just(r.ret), chat)
                 IN Drafted(f, r, d)

\* variant of generate_tweet_from_selected_article: the examples are looked
\* up before the article is downloaded
generate_tweet_from_selected_article_lookup_first(collection, model, available, article_url, article_title, fetch, enc, qry, chat) ==
    IF ~TruthyStr(article_url) \/ ~TruthyStr(article_title)
    THEN Stopped(NotFetched, FALSE, FALSE, "Article URL and title are required.")
    ELSE LET f == get_full_article_content(article_url, fetch)
         IN IF f.raised
            THEN Stopped(f, TRUE, TRUE, "")
            ELSE IF ~TruthySeq(f.ret)
            THEN Stopped(f, FALSE, TRUE,
                         "Could not retrieve full content. Cannot generate tweet.")
            ELSE LET r == find_relevant_tweets(collection, model,
                                               article_title[1], 3, enc, qry)
                     d == generate_tweet_draft(available, article_title, f.ret,
                                               Just(r.ret), chat)
                 IN [Drafted(f, r, d) EXCEPT !.ext = r.ext \o f.ext \o d.ext]

\* TweetGeneratorAgent.generate_tweet_from_selected_article; an exception of
\* the fetcher would propagate (line 214 is outside any try block)
generate_tweet_from_selected_article(collection, model, available, article_url, article_title, fetch, enc, qry, chat) ==
    IF ~TruthyStr(article_url) \/ ~TruthyStr(article_title)
    THEN Stopped(NotFetched, FALSE, FALSE, "Article URL and title are required.")
    ELSE LET f == get_full_article_content(article_url, fetch)
         IN IF f.raised
            THEN Stopped(f, TRUE, TRUE, "")
            ELSE IF ~TruthySeq(f.ret)
            THEN Stopped(f, FALSE, TRUE,
                         "Could not retrieve full content. Cannot generate tweet.")
            ELSE LET r == find_relevant_tweets(collection, model,
                                               article_title[1], 3, enc, qry)
                     d == generate_tweet_draft(available, article_title, f.ret,
                                               Just(r.ret), chat)
                 IN Drafted(f, r, d)

\* NewsFetcher.get_top_headlines; api is the outcome of the service call
HeadlinesRaise == [kind |-> "raise", status |-> "", articles |-> <<>>]
HeadlinesStatus(st, arts) == [kind |-> "answer", status |-> st, articles |-> arts]

\* the entries built from the articles of a response
ProcessedArticles(articles) ==
    [i \in 1..Len(articles) |->
        [title |-> articles[i].title,
         description |-> articles[i].description,
         url |-> articles[i].url]]

\* variant of get_top_headlines: the articles of a response are returned
\* whatever its status
get_top_headlines_any_status(client, api) ==
    IF ~client
    THEN [ret |-> Nothing, ext |-> <<>>, raised |-> FALSE]
    ELSE IF api.kind = "raise"
    THEN [ret |-> Nothing, ext |-> <<"headlines">>, raised |-> FALSE]
    ELSE [ret |-> Just(ProcessedArticles(api.articles)),
          ext |-> <<"headlines">>, raised |-> FALSE]

get_top_headlines(client, api) ==
    IF ~client
    THEN [ret |-> Nothing, ext |-> <<>>, raised |-> FALSE]
    ELSE IF api.kind = "raise"
    THEN [ret |-> Nothing, ext |-> <<"headlines">>, raised |-> FALSE]
    ELSE IF api.status = "ok"
    THEN [ret |-> Just(ProcessedArticles(api.articles)),
          ext |-> <<"headlines">>, raised |-> FALSE]
    ELSE [ret |-> Nothing, ext |-> <<"headlines">>, raised |-> FALSE]

----------------------------------------------------------------------------
(* Inputs                                                                   *)

InSeq(x, s) == \E i \in 1..Len(s) : s[i] = x

OptTitles == {Nothing, Just(""), Just("T1")}
OptUrls == {Nothing, Just(""), Just("u")}

\* the outcomes of an external call are drawn only when the call is made
Consulted(made, outcomes, unused) == IF made THEN outcomes ELSE {unused}

\* short article bodies
Contents == {<<>>, <<"a">>}
OptContents == {Nothing} \cup {Just(c) : c \in Contents}

\* example lists handed to generate_tweet_draft
ExampleLists == {Nothing, Just(<<>>), Just(<<"A", "B">>)}

\* response texts of the generation service
SampleResponses ==
    { <<"a">>,
      OPEN \o <<"a">> \o CLOSE \o <<" ", "a">>,
      OPEN \o <<"a">>,
      OPEN \o <<"a">> \o CLOSE }

ChatOutcomes == {ChatRaise, ChatMalformed} \cup {ChatOk(r) : r \in SampleResponses}

FetchOutcomes == {FetchRaise} \cup {FetchOk(c) : c \in Contents}

MaxArticles == 2    \* articles in a headline response

\* articles of a headline response: a field the service left out is None
ApiArticles ==
    { [title |-> Just("T1"), description |-> Nothing, url |-> Just("u"),
       author |-> "x"],
      [title |-> Nothing, description |-> Nothing, url |-> Just("u"),
       author |-> "y"],
      [title |-> Just("T2"), description |-> Nothing, url |-> Nothing,
       author |-> "x"] }

HeadlineOutcomes ==
    {HeadlinesRaise, HeadlinesStatus("error", <<>>)}
    \cup {HeadlinesStatus("ok", a) : a \in SeqsUpTo(ApiArticles, MaxArticles)}

----------------------------------------------------------------------------
(* Construction: TweetGeneratorAgent.__init__                               *)

\* outcomes of chromadb.Client(...) and client.get_collection(...)
ChromaClientError == [kind |-> "client_error", items |-> <<>>]
ChromaMissing == [kind |-> "missing", items |-> <<>>]
ChromaCountError == [kind |-> "count_error", items |-> <<>>]
ChromaFound(items) == [kind |-> "found", items |-> items]

\* what the four external components answer while the agent is constructed
InitOutcomes ==
    [newsclient : {"ok", "raise"},
     embed : {"ok", "raise"},
     chroma : {ChromaClientError, ChromaMissing, ChromaCountError}
              \cup {ChromaFound(c) : c \in Collections},
     ollama : {"ok", "raise"}]

\* NewsFetcher.__init__ with the key the agent passes
NewsFetcher_init(key_given, client) ==
    IF ~key_given THEN FALSE
    ELSE client = "ok"

\* variant of TweetGeneratorAgent_init: a failed embedding model load is not
\* caught, the two later steps do not run
TweetGeneratorAgent_init_uncaught(env) ==
    IF env.embed = "raise"
    THEN [newsapi |-> NewsFetcher_init(TRUE, env.newsclient),
          embedding_model |-> FALSE, chroma_collection |-> Nothing,
          ollama_available |-> FALSE, raised |-> TRUE]
    ELSE [newsapi |-> NewsFetcher_init(TRUE, env.newsclient),
          embedding_model |-> TRUE,
          chroma_collection |-> IF env.chroma.kind = "found"
                                THEN Just(env.chroma.items) ELSE Nothing,
          ollama_available |-> (env.ollama = "ok"),
          raised |-> FALSE]

\* TweetGeneratorAgent.__init__: the fetcher, then _initialize_embedding_model,
\* _initialize_chroma_db and _check_ollama, each inside its own try/except
TweetGeneratorAgent_init(env) ==
    [newsapi |-> NewsFetcher_init(TRUE, env.newsclient),
     embedding_model |-> (env.embed = "ok"),
     chroma_collection |-> IF env.chroma.kind = "found"
                           THEN Just(env.chroma.items) ELSE Nothing,
     ollama_available |-> (env.ollama = "ok"),
     raised |-> FALSE]

\* the agent's fields are those the constructor left
Constructed(env) ==
    LET a == TweetGeneratorAgent_init(env)
    IN /\ boot = env
       /\ newsapi = a.newsapi
       /\ embedding_model = a.embedding_model
       /\ chroma_collection = a.chroma_collection
       /\ ollama_available = a.ollama_available
       /\ pc = IF a.raised THEN "init_failed" ELSE "start"

----------------------------------------------------------------------------
(* State after construction                                                 *)

NoCall == [op |-> "none"]

\* the population script is not running
NoPopulation == [pc |-> "off"]

NoRun == [input_method |-> "", articles |-> Nothing,
          final_selected_article_title |-> Nothing,
          final_full_article_content |-> Nothing,
          operation_successful |-> FALSE,
          fetch_attempted |-> FALSE, retrieved_content |-> Nothing,
          generation_entered |-> FALSE,
          relevant_tweets |-> Nothing, draft_prompt |-> Nothing,
          draft_tweet |-> Nothing, image_prompt_request |-> Nothing,
          image_prompt |-> Nothing,
          download |-> "none", retrieval |-> "none",
          draft_answer |-> "none", image_answer |-> "none",
          ext |-> <<>>, shown |-> <<>>, log |-> <<>>]

Init ==
    /\ \E env \in InitOutcomes : Constructed(env)
    /\ last = NoCall
    /\ chat_issued = FALSE
    /\ run = NoRun
    /\ resp = <<>>
    /\ article = <<>>
    /\ pop = NoPopulation

----------------------------------------------------------------------------
(* Calls of the agent's methods by a client of the class                    *)

LibraryUse == pc \in {"start", "lib"}

\* variant of CallFind: the items of the collection are consumed by the query
CallFind_consumes_items ==
    /\ LibraryUse
    /\ \E query_text \in Titles, n_results \in 0..MaxK :
       \E enc \in Consulted(~IsNone(chroma_collection) /\ embedding_model,
                            EncodeOutcomes, "ok") :
       \E qry \in Consulted(~IsNone(chroma_collection) /\ embedding_model
                            /\ enc = "ok", QueryOutcomes, "ok") :
        \E r \in {find_relevant_tweets(chroma_collection, embedding_model,
                                      query_text, n_results, enc, qry)} :
           /\ last' = [op |-> "find_relevant_tweets", query_text |-> query_text,
                       n_results |-> n_results, log |-> r.log,
                       ret |-> r.ret, ext |-> r.ext, raised |-> r.raised]
           /\ chat_issued' = (chat_issued \/ InSeq("chat", r.ext))
           /\ chroma_collection' = IF r.log = "Found" THEN Just(<<>>)
                                   ELSE chroma_collection
    /\ pc' = "lib"
    /\ UNCHANGED <<boot, newsapi, embedding_model, ollama_available,
                   run, resp, article, pop>>

CallFind ==
    /\ LibraryUse
    /\ \E query_text \in Titles, n_results \in 0..MaxK :
       \E enc \in Consulted(~IsNone(chroma_collection) /\ embedding_model,
                            EncodeOutcomes, "ok") :
       \E qry \in Consulted(~IsNone(chroma_collection) /\ embedding_model
                            /\ enc = "ok", QueryOutcomes, "ok") :
        \E r \in {find_relevant_tweets(chroma_collection, embedding_model,
                                      query_text, n_results, enc, qry)} :
           /\ last' = [op |-> "find_relevant_tweets", query_text |-> query_text,
                       n_results |-> n_results, log |-> r.log,
                       ret |-> r.ret, ext |-> r.ext, raised |-> r.raised]
           /\ chat_issued' = (chat_issued \/ InSeq("chat", r.ext))
    /\ pc' = "lib"
    /\ UNCHANGED <<agent_flags, run, resp, article, pop>>

CallHeadlines ==
    /\ LibraryUse
    /\ \E api \in Consulted(newsapi, HeadlineOutcomes, HeadlinesRaise) :
        \E r \in {get_top_headlines(newsapi, api)} :
           /\ last' = [op |-> "get_top_headlines", api |-> api,
                       ret |-> r.ret, ext |-> r.ext, raised |-> r.raised]
           /\ chat_issued' = (chat_issued \/ InSeq("chat", r.ext))
    /\ pc' = "lib"
    /\ UNCHANGED <<agent_flags, run, resp, article, pop>>

\* variant of CallDraft: a failed generation call marks the service
\* unavailable
CallDraft_marks_unavailable ==
    /\ LibraryUse
    /\ \E title \in OptTitles, content \in OptContents, tweets \in ExampleLists :
       \E chat \in Consulted(ollama_available /\ ~IsNone(content),
                             ChatOutcomes, ChatRaise) :
        \E r \in {generate_tweet_draft(ollama_available, title, content, tweets, chat)} :
           /\ last' = [op |-> "generate_tweet_draft", article_title |-> title,
                       full_article_content |-> content,
                       relevant_past_tweets |-> tweets,
                       ret |-> r.ret, ext |-> r.ext, raised |-> r.raised,
                       prompt |-> r.prompt, answer |-> r.answer]
           /\ chat_issued' = (chat_issued \/ InSeq("chat", r.ext))
           /\ ollama_available' = (ollama_available /\ r.answer # "raise")
    /\ pc' = "lib"
    /\ UNCHANGED <<boot, newsapi, embedding_model, chroma_collection,
                   run, resp, article, pop>>

CallDraft ==
    /\ LibraryUse
    /\ \E title \in OptTitles, content \in OptContents, tweets \in ExampleLists :
       \E chat \in Consulted(ollama_available /\ ~IsNone(content),
                             ChatOutcomes, ChatRaise) :
        \E r \in {generate_tweet_draft(ollama_available, title, content, tweets, chat)} :
           /\ last' = [op |-> "generate_tweet_draft", article_title |-> title,
                       full_article_content |-> content,
                       relevant_past_tweets |-> tweets,
                       ret |-> r.ret, ext |-> r.ext, raised |-> r.raised,
                       prompt |-> r.prompt, answer |-> r.answer]
           /\ chat_issued' = (chat_issued \/ InSeq("chat", r.ext))
    /\ pc' = "lib"
    /\ UNCHANGED <<agent_flags, run, resp, article, pop>>

CallImagePrompt ==
    /\ LibraryUse
    /\ \E title \in OptTitles, tweet \in {Just(<<"a">>), Just(<<"a", "a">>)} :
       \E chat \in Consulted(ollama_available, ChatOutcomes, ChatRaise) :
        \E r \in {generate_image_prompt(ollama_available, title, tweet, chat)} :
           /\ last' = [op |-> "generate_image_prompt", article_title |-> title,
                       generated_tweet_text |-> tweet,
                       ret |-> r.ret, ext |-> r.ext, raised |-> r.raised,
                       prompt |-> r.prompt, answer |-> r.answer]
           /\ chat_issued' = (chat_issued \/ InSeq("chat", r.ext))
    /\ pc' = "lib"
    /\ UNCHANGED <<agent_flags, run, resp, article, pop>>

CallFromSelected ==
    /\ LibraryUse
    /\ \E url \in OptUrls, title \in OptTitles :
       \E fetch \in Consulted(TruthyStr(url) /\ TruthyStr(title),
                              FetchOutcomes, FetchRaise) :
       \E enc \in Consulted(/\ fetch.kind = "ok" /\ fetch.text # <<>>
                            /\ ~IsNone(chroma_collection) /\ embedding_model,
                            EncodeOutcomes, "ok") :
       \E qry \in Consulted(/\ fetch.kind = "ok" /\ fetch.text # <<>>
                            /\ ~IsNone(chroma_collection) /\ embedding_model
                            /\ enc = "ok", QueryOutcomes, "ok") :
       \E chat \in Consulted(/\ fetch.kind = "ok" /\ fetch.text # <<>>
                             /\ ollama_available, ChatOutcomes, ChatRaise) :
        \E r \in {generate_tweet_from_selected_article(
                     chroma_collection, embedding_model, ollama_available,
                     url, title, fetch, enc, qry, chat)} :
           /\ last' = [op |-> "generate_tweet_from_selected_article",
                       article_url |-> url, article_title |-> title,
                       ret |-> r.ret, ext |-> r.ext, raised |-> r.raised,
                       full_content |-> r.full_content, fetched |-> r.fetched,
                       relevant_tweets |-> r.relevant_tweets,
                       download |-> r.download, retrieval |-> r.retrieval,
                       answer |-> r.answer,
                       prompt |-> r.prompt, log |-> r.log]
           /\ chat_issued' = (chat_issued \/ InSeq("chat", r.ext))
    /\ pc' = "lib"
    /\ UNCHANGED <<agent_flags, run, resp, article, pop>>

----------------------------------------------------------------------------
(* The interactive script (agent_core.py, __main__)                         *)

\* outcomes of _display_in_text_editor: done; an exception after file_path was
\* bound (reported by the handler); an exception before that, where the
\* handler's own print of file_path raises UnboundLocalError
DisplayOutcomes == {"ok", "error", "crash"}

\* variant of MainStart: the embedding model is not among the components
\* tested
MainStart_without_model_check ==
    /\ pc = "start"
    /\ pc' = IF newsapi /\ ollama_available
             THEN "choose_input" ELSE "finished"
    /\ UNCHANGED <<agent_flags, last, chat_issued, run, resp, article, pop>>

\* component checks; the interaction starts only with the news client, the
\* generation service and the embedding model
MainStart ==
    /\ pc = "start"
    /\ pc' = IF newsapi /\ ollama_available /\ embedding_model
             THEN "choose_input" ELSE "finished"
    /\ UNCHANGED <<agent_flags, last, chat_issued, run, resp, article, pop>>

\* input method 1, up to the headline list
MainFetchHeadlines ==
    /\ pc = "choose_input"
    /\ \E api \in HeadlineOutcomes :
        \E h \in {get_top_headlines(newsapi, api)} :
           /\ run' = [run EXCEPT !.input_method = "1", !.articles = h.ret,
                                 !.ext = @ \o h.ext,
                                 !.operation_successful = FALSE]
           /\ pc' = IF TruthySeq(h.ret) THEN "select_article" ELSE "generate"
    /\ UNCHANGED <<agent_flags, last, chat_issued, resp, article, pop>>

\* input method 1, article choice (0 skips) and download of its text
MainSelectArticle ==
    /\ pc = "select_article"
    /\ \E article_choice \in 0..Len(run.articles[1]) :
       LET url == IF article_choice = 0 THEN Nothing
                  ELSE run.articles[1][article_choice].url
           title == IF article_choice = 0 THEN Nothing
                    ELSE run.articles[1][article_choice].title
       IN \E fetch \in Consulted(TruthyStr(url) /\ TruthyStr(title),
                                  FetchOutcomes, FetchRaise) :
           IF article_choice = 0 \/ ~(TruthyStr(url) /\ TruthyStr(title))
           THEN /\ run' = [run EXCEPT !.operation_successful = FALSE]
                /\ pc' = "generate"
           ELSE LET f == get_full_article_content(url, fetch)
                    r1 == [run EXCEPT !.fetch_attempted = TRUE,
                                      !.retrieved_content = f.ret,
                                      !.download = f.download,
                                      !.ext = @ \o f.ext]
                IN IF f.raised
                   THEN /\ run' = r1
                        /\ pc' = "crashed"
                   ELSE IF TruthySeq(f.ret)
                   THEN /\ run' = [r1 EXCEPT
                                     !.final_selected_article_title = title,
                                     !.final_full_article_content = f.ret,
                                     !.operation_successful = TRUE]
                        /\ pc' = "generate"
                   ELSE /\ run' = [r1 EXCEPT
                                     !.log = Append(@, "Could not retrieve full content"),
                                     !.operation_successful = FALSE]
                        /\ pc' = "generate"
    /\ UNCHANGED <<agent_flags, last, chat_issued, resp, article, pop>>

\* input method 2: the prompts repeat until title and content are non-empty
MainManual ==
    /\ pc = "choose_input"
    /\ \E title_manual \in Titles \ {""}, content_manual \in Contents \ {<<>>} :
        run' = [run EXCEPT !.input_method = "2",
                           !.final_selected_article_title = Just(title_manual),
                           !.final_full_article_content = Just(content_manual),
                           !.operation_successful = TRUE]
    /\ pc' = "generate"
    /\ UNCHANGED <<agent_flags, last, chat_issued, resp, article, pop>>

\* lines 490-541: retrieval, draft, display, image prompt, display
GenerationStep(r0, enc, qry, chat1, disp1, chat2, disp2) ==
    LET title == r0.final_selected_article_title
        found == find_relevant_tweets(chroma_collection, embedding_model,
                                      title[1], 3, enc, qry)
        d == generate_tweet_draft(ollama_available, title,
                                  r0.final_full_article_content,
                                  Just(found.ret), chat1)
        r1 == [r0 EXCEPT !.generation_entered = TRUE,
                         !.relevant_tweets = Just(found.ret),
                         !.draft_prompt = d.prompt,
                         !.draft_tweet = d.ret,
                         !.retrieval = found.log,
                         !.draft_answer = d.answer,
                         !.ext = @ \o found.ext \o d.ext]
    IN IF ~TruthySeq(d.ret)
       THEN [run |-> r1, pc |-> "finished"]
       ELSE LET r2 == [r1 EXCEPT !.shown = Append(@, "generated_tweet.txt")]
            IN IF disp1 = "crash"
               THEN [run |-> r2, pc |-> "crashed"]
               ELSE LET g == generate_image_prompt(ollama_available, title,
                                                   d.ret, chat2)
                        r3 == [r2 EXCEPT !.image_prompt_request = g.prompt,
                                         !.image_prompt = g.ret,
                                         !.image_answer = g.answer,
                                         !.ext = @ \o g.ext]
                    IN IF ~TruthySeq(g.ret)
                       THEN [run |-> r3, pc |-> "finished"]
                       ELSE [run |-> [r3 EXCEPT !.shown =
                                          Append(@, "generated_image_prompt.txt")],
                             pc |-> IF disp2 = "crash" THEN "crashed"
                                    ELSE "finished"]

MainGenerate ==
    /\ pc = "generate"
    /\ IF /\ run.operation_successful
          /\ TruthyStr(run.final_selected_article_title)
          /\ TruthySeq(run.final_full_article_content)
       THEN \E enc \in Consulted(~IsNone(chroma_collection) /\ embedding_model,
                                    EncodeOutcomes, "ok") :
            \E qry \in Consulted(~IsNone(chroma_collection) /\ embedding_model
                                 /\ enc = "ok", QueryOutcomes, "ok") :
            \E chat1 \in Consulted(ollama_available, ChatOutcomes, ChatRaise) :
            \E disp1 \in Consulted(chat1.kind = "ok", DisplayOutcomes, "ok") :
            \E chat2 \in Consulted(chat1.kind = "ok" /\ disp1 # "crash",
                                   ChatOutcomes, ChatRaise) :
            \E disp2 \in Consulted(chat2.kind = "ok", DisplayOutcomes, "ok") :
               \E g \in {GenerationStep(run, enc, qry, chat1, disp1, chat2, disp2)} :
                  /\ run' = g.run
                  /\ pc' = g.pc
                  /\ chat_issued' = (chat_issued \/ InSeq("chat", g.run.ext))
       ELSE /\ pc' = "finished"
            /\ run' = [run EXCEPT !.log =
                          IF run.operation_successful THEN @
                          ELSE Append(@, "No article content available or operation skipped, so no tweet generated.")]
            /\ UNCHANGED chat_issued
    /\ UNCHANGED <<agent_flags, last, resp, article, pop>>

Next == CallFind \/ CallHeadlines \/ CallDraft \/ CallImagePrompt \/ CallFromSelected
        \/ MainStart \/ MainFetchHeadlines \/ MainSelectArticle \/ MainManual
        \/ MainGenerate

Spec == Init /\ [][Next]_vars

----------------------------------------------------------------------------
(* Output cleaning on its own: the generation service answers with an       *)
(* arbitrary text built from marker pieces, a letter and a blank            *)

Chunks ==
    { <<"<", "t", "h", "i">>, <<"n", "k", ">">>, OPEN, CLOSE, <<"a">>, <<" ">> }

RECURSIVE Concat(_)
Concat(chunks) ==
    IF chunks = <<>> THEN <<>> ELSE Head(chunks) \o Concat(Tail(chunks))

Responses == {Concat(cs) : cs \in SeqsUpTo(Chunks, MaxChunks)}

InitClean ==
    /\ Constructed([newsclient |-> "ok", embed |-> "ok",
                    chroma |-> ChromaMissing, ollama |-> "ok"])
    /\ last = NoCall
    /\ chat_issued = FALSE
    /\ run = NoRun
    /\ resp \in Responses
    /\ article = <<"a">>
    /\ pop = NoPopulation

\* generate_tweet_draft when the service answers resp
DraftGiven ==
    /\ pc = "start"
    /\ LET r == generate_tweet_draft(ollama_available, Just("T1"), Just(article),
                                     Just(<<>>), ChatOk(resp))
       IN last' = [op |-> "generate_tweet_draft", article_title |-> Just("T1"),
                   full_article_content |-> Just(article),
                   relevant_past_tweets |-> Just(<<>>),
                   ret |-> r.ret, ext |-> r.ext, raised |-> r.raised,
                   prompt |-> r.prompt, answer |-> r.answer]
    /\ chat_issued' = TRUE
    /\ pc' = "lib"
    /\ UNCHANGED <<agent_flags, run, resp, article, pop>>

\* generate_image_prompt when the service answers resp
ImageGiven ==
    /\ pc = "start"
    /\ LET r == generate_image_prompt(ollama_available, Just("T1"), Just(<<"a">>),
                                      ChatOk(resp))
       IN last' = [op |-> "generate_image_prompt", article_title |-> Just("T1"),
                   generated_tweet_text |-> Just(<<"a">>),
                   ret |-> r.ret, ext |-> r.ext, raised |-> r.raised,
                   prompt |-> r.prompt, answer |-> r.answer]
    /\ chat_issued' = TRUE
    /\ pc' = "lib"
    /\ UNCHANGED <<agent_flags, run, resp, article, pop>>

NextClean == DraftGiven \/ ImageGiven

SpecClean == InitClean /\ [][NextClean]_vars

----------------------------------------------------------------------------
(* Truncation on its own: article bodies around the length limit            *)

\* a body of n characters whose i-th character depends on i and p
ArticleOf(n, p) ==
    [i \in 1..n |-> CASE (i + p) % 3 = 0 -> "a"
                      [] (i + p) % 3 = 1 -> "b"
                      [] OTHER -> "c"]

LongArticles ==
    {ArticleOf(n, p) : n \in (max_content_length - TruncSlack)
                              ..(max_content_length + TruncSlack),
                       p \in 0..2}

InitTrunc ==
    /\ \E o \in {"ok", "raise"} :
          Constructed([newsclient |-> "ok", embed |-> "ok",
                       chroma |-> ChromaMissing, ollama |-> o])
    /\ last = NoCall
    /\ chat_issued = FALSE
    /\ run = NoRun
    /\ resp = <<>>
    /\ article \in LongArticles
    /\ pop = NoPopulation

\* generate_tweet_draft on the article body
DraftArticle ==
    /\ pc = "start"
    /\ \E title \in OptTitles, tweets \in ExampleLists :
       \E chat \in Consulted(ollama_available, ChatOutcomes, ChatRaise) :
        \E r \in {generate_tweet_draft(ollama_available, title, Just(article),
                                      tweets, chat)} :
           /\ last' = [op |-> "generate_tweet_draft", article_title |-> title,
                       full_article_content |-> Just(article),
                       relevant_past_tweets |-> tweets,
                       ret |-> r.ret, ext |-> r.ext, raised |-> r.raised,
                       prompt |-> r.prompt, answer |-> r.answer]
           /\ chat_issued' = (chat_issued \/ InSeq("chat", r.ext))
    /\ pc' = "lib"
    /\ UNCHANGED <<agent_flags, run, resp, article, pop>>

NextTrunc == DraftArticle

SpecTrunc == InitTrunc /\ [][NextTrunc]_vars

----------------------------------------------------------------------------
(* Properties                                                               *)

IsDraftCall == last.op = "generate_tweet_draft"
IsImageCall == last.op = "generate_image_prompt"
IsFindCall == last.op = "find_relevant_tweets"
IsSelectedCall == last.op = "generate_tweet_from_selected_article"

\* C1: when the capability probe failed (ollama_available is false), every
\* call of generate_tweet_draft and generate_image_prompt returns None without
\* raising and issues no ollama.chat request, and no chat request has been
\* issued by any earlier call either.
C1_UnavailableShortCircuits ==
    ~ollama_available =>
        /\ ~chat_issued
        /\ (IsDraftCall \/ IsImageCall) =>
              /\ last.ret = Nothing
              /\ ~last.raised
              /\ ~InSeq("chat", last.ext)

C1_Witness ==
    /\ ~ollama_available
    /\ IsDraftCall
    /\ last.full_article_content = Just(<<"a">>)
    /\ last.article_title = Just("T1")

\* C2: when the download of the article text yields None or an empty string,
\* generate_tweet_from_selected_article returns None, logs that it cannot
\* generate and calls neither the store nor ollama.chat; in the script's API
\* path the run is marked unsuccessful, the generation block is not entered
\* and no chat request is issued in that run.
C2_NoContentNoGeneration ==
    /\ (IsSelectedCall /\ last.fetched /\ ~TruthySeq(last.full_content)) =>
          /\ last.ret = Nothing
          /\ ~last.raised
          /\ last.log = "Could not retrieve full content. Cannot generate tweet."
          /\ last.ext = <<"download">>
    /\ (run.fetch_attempted /\ ~TruthySeq(run.retrieved_content)) =>
          /\ ~run.operation_successful
          /\ ~run.generation_entered
          /\ run.draft_tweet = Nothing
          /\ ~InSeq("chat", run.ext)
          /\ ~chat_issued
          /\ InSeq("Could not retrieve full content", run.log)
          /\ pc = "finished" =>
                InSeq("No article content available or operation skipped, so no tweet generated.",
                      run.log)

C2_Witness ==
    /\ pc = "finished"
    /\ run.fetch_attempted
    /\ run.retrieved_content = Just(<<>>)

\* C3: find_relevant_tweets never raises; it returns the empty list when the
\* collection is unavailable, when the embedding model is unavailable, when
\* the collection is empty, and when encode or the store query fails; in the
\* first two cases neither encode nor the store query is called.
C3_RetrievalBestEffort ==
    IsFindCall =>
        /\ ~last.raised
        /\ (IsNone(chroma_collection) \/ ~embedding_model) =>
              (last.ret = <<>> /\ last.ext = <<>>)
        /\ (~IsNone(chroma_collection) /\ chroma_collection[1] = <<>>) =>
              last.ret = <<>>
        /\ last.log # "Found" => last.ret = <<>>

C3_Witness ==
    /\ IsFindCall
    /\ ~embedding_model
    /\ ~IsNone(chroma_collection)
    /\ Len(chroma_collection[1]) > 0
    /\ last.n_results > 0

\* C4: with the generation service available, an empty or None example list
\* still gives a prompt, whose example block is the fixed placeholder sentence,
\* and the prompt is submitted to ollama.chat (the article content being a
\* string); likewise in the pipeline and in the script when retrieval returned
\* the empty list.
C4_NoExamplesStillPrompts ==
    /\ (/\ IsDraftCall
        /\ ollama_available
        /\ ~TruthySeq(last.relevant_past_tweets)
        /\ ~IsNone(last.full_article_content)) =>
          /\ ~last.raised
          /\ ~IsNone(last.prompt)
          /\ last.prompt[1].example_tweets_formatted = << <<NO_EXAMPLES>> >>
          /\ last.ext = <<"chat">>
    /\ (/\ IsSelectedCall
        /\ ollama_available
        /\ last.relevant_tweets = Just(<<>>)) =>
          /\ ~IsNone(last.prompt)
          /\ last.prompt[1].example_tweets_formatted = << <<NO_EXAMPLES>> >>
          /\ InSeq("chat", last.ext)
    /\ (run.generation_entered /\ run.relevant_tweets = Just(<<>>)) =>
          /\ ~IsNone(run.draft_prompt)
          /\ run.draft_prompt[1].example_tweets_formatted = << <<NO_EXAMPLES>> >>
          /\ InSeq("chat", run.ext)

C4_Witness ==
    /\ IsDraftCall
    /\ ollama_available
    /\ last.relevant_past_tweets = Just(<<>>)
    /\ ~IsNone(last.ret)

\* ret is a ranked top-k answer for query q over items: min(k, size) texts,
\* in order of non-decreasing distance, each the text of a different stored
\* item, and no stored item left out is nearer than one returned
TopK(ret, items, q, k) ==
    /\ Len(ret) = Min(k, Len(items))
    /\ \A i \in 1..(Len(ret) - 1) :
          Dist(Encode(ret[i]), Encode(q)) <= Dist(Encode(ret[i + 1]), Encode(q))
    /\ \E f \in [1..Len(ret) -> 1..Len(items)] :
          /\ \A i, j \in 1..Len(ret) : i # j => f[i] # f[j]
          /\ \A i \in 1..Len(ret) : items[f[i]].text = ret[i]
          /\ \A j \in 1..Len(items) :
                (\A i \in 1..Len(ret) : f[i] # j) =>
                    \A i \in 1..Len(ret) :
                        Dist(Encode(ret[i]), Encode(q))
                            <= Dist(items[j].embedding, Encode(q))

\* C5 (as stated): for every non-empty query and every k, with the collection
\* and the embedding model available, find_relevant_tweets returns exactly
\* min(k, collection_size) texts in order of non-decreasing distance.
C5_AsStated ==
    (/\ IsFindCall
     /\ last.query_text # ""
     /\ ~IsNone(chroma_collection)
     /\ embedding_model) =>
        TopK(last.ret, chroma_collection[1], last.query_text, last.n_results)

\* C5 (amended): the same, for the calls in which encode and the store query
\* both succeed (the call logs "Found ... relevant tweets").
C5_TopKWhenCallsSucceed ==
    (/\ IsFindCall
     /\ last.query_text # ""
     /\ ~IsNone(chroma_collection)
     /\ embedding_model
     /\ last.log = "Found") =>
        TopK(last.ret, chroma_collection[1], last.query_text, last.n_results)

C5_Witness ==
    /\ IsFindCall
    /\ last.query_text = "T1"
    /\ ~IsNone(chroma_collection)
    /\ chroma_collection[1] = StoredItems(<<"B", "A">>)
    /\ last.n_results = MaxK
    /\ last.ret = <<"A", "B">>

\* C6: cleaning is idempotent: cleaning the text returned by a generation
\* call again gives the same text.
C6_CleaningIdempotent ==
    ((IsDraftCall \/ IsImageCall) /\ ~IsNone(last.ret)) =>
        CleanResponse(last.ret[1]) = last.ret[1]

\* the text with its segments deleted, scanned left to right: a segment runs
\* from the first opening marker to the first closing marker after it; with
\* blanks, the whitespace that follows the closing marker goes too
RECURSIVE DeleteSegments(_, _)
DeleteSegments(s, blanks) ==
    LET o == Find(s, 1, OPEN)
        c == IF o = 0 THEN 0 ELSE Find(s, o + Len(OPEN), CLOSE)
        e == IF blanks THEN SkipSpace(s, c + Len(CLOSE)) ELSE c + Len(CLOSE)
    IN IF c = 0 THEN s
       ELSE SubSeq(s, 1, o - 1) \o DeleteSegments(SubSeq(s, e, Len(s)), blanks)

HasSegment(s) ==
    \E i, j \in 1..Len(s) :
        MatchAt(s, i, OPEN) /\ MatchAt(s, j, CLOSE) /\ j >= i + Len(OPEN)

\* C7 (as stated): the cleaned text is the response with exactly the
\* marker-delimited spans deleted, trimmed only at its two ends.
C7_AsStated ==
    ((IsDraftCall \/ IsImageCall) /\ ~IsNone(last.ret)) =>
        last.ret[1] = Strip(DeleteSegments(resp, FALSE))

\* C7 (amended): the cleaned text is the response with the marker-delimited
\* spans, and the whitespace directly after each span, deleted, trimmed at its
\* two ends; a response without a segment is returned unchanged but for the
\* trimming.
C7_SegmentsAndFollowingBlanksDeleted ==
    ((IsDraftCall \/ IsImageCall) /\ ~IsNone(last.ret)) =>
        /\ last.ret[1] = Strip(DeleteSegments(resp, TRUE))
        /\ ~HasSegment(resp) => last.ret[1] = Strip(resp)

C7_Witness ==
    /\ IsDraftCall
    /\ resp = OPEN \o CLOSE \o <<" ">> \o OPEN \o CLOSE
    /\ last.ret = Just(<<>>)

\* C8: whenever the generation service is available and answers,
\* generate_tweet_draft returns a non-empty string without "<think>" and
\* without "</think>".
C8_DraftNonEmptyWithoutMarkers ==
    (IsDraftCall /\ ollama_available /\ ~IsNone(last.ret)) =>
        /\ Len(last.ret[1]) > 0
        /\ Find(last.ret[1], 1, OPEN) = 0
        /\ Find(last.ret[1], 1, CLOSE) = 0

C10_ValidationBeforeExternalCalls ==
    /\ (IsSelectedCall
        /\ (~TruthyStr(last.article_url) \/ ~TruthyStr(last.article_title))) =>
          (last.ret = Nothing /\ ~last.raised /\ last.ext = <<>>)
    /\ (IsDraftCall
        /\ ~IsNone(last.full_article_content)
        /\ (~TruthyStr(last.article_title)
            \/ last.full_article_content = Just(<<>>))) =>
          (last.ret = Nothing /\ ~last.raised /\ last.ext = <<>>)

----------------------------------------------------------------------------
(* Failure handling, frame conditions and ordering                          *)

IsHeadlinesCall == last.op = "get_top_headlines"

Count(x, s) == Cardinality({i \in 1..Len(s) : s[i] = x})

ChatFailed(answer) == answer \in {"raise", "malformed"}

\* C11: get_top_headlines never raises; it returns None when the client was
\* not initialized, when the service call throws and when the service answers
\* with a status other than "ok"; on status "ok" it returns a list with one
\* {title, description, url} entry per article of the response, in the
\* response's order.
C11_HeadlinesAllOrNothing ==
    IsHeadlinesCall =>
        /\ ~last.raised
        /\ (~newsapi \/ last.api.kind = "raise" \/ last.api.status # "ok") =>
              last.ret = Nothing
        /\ (newsapi /\ last.api.kind = "answer" /\ last.api.status = "ok") =>
              /\ last.ret # Nothing
              /\ Len(last.ret[1]) = Len(last.api.articles)
              /\ \A i \in 1..Len(last.ret[1]) :
                    /\ DOMAIN last.ret[1][i] = {"title", "description", "url"}
                    /\ last.ret[1][i].title = last.api.articles[i].title
                    /\ last.ret[1][i].description = last.api.articles[i].description
                    /\ last.ret[1][i].url = last.api.articles[i].url

C11_Witness ==
    /\ IsHeadlinesCall
    /\ newsapi
    /\ last.api.kind = "answer"
    /\ last.api.status = "error"
    /\ last.ret = Nothing

\* C12: when the download or the parse of the article raises,
\* get_full_article_content returns None and does not raise; then
\* generate_tweet_from_selected_article returns None without retrieval and
\* without a generation call, and the script reports the missing content,
\* skips the generation block and ends without a crash.
C12_DownloadFailureIsContentUnavailable ==
    /\ (IsSelectedCall /\ last.download = "raise") =>
          /\ ~last.raised
          /\ last.full_content = Nothing
          /\ last.ret = Nothing
          /\ last.ext = <<"download">>
          /\ last.relevant_tweets = Nothing
          /\ last.prompt = Nothing
    /\ run.download = "raise" =>
          /\ pc # "crashed"
          /\ run.retrieved_content = Nothing
          /\ ~run.operation_successful
          /\ ~run.generation_entered
          /\ run.draft_tweet = Nothing
          /\ InSeq("Could not retrieve full content", run.log)
          /\ Count("chat", run.ext) = 0
          /\ Count("query", run.ext) = 0

C12_Witness ==
    /\ run.download = "raise"
    /\ pc = "finished"

\* C13: when ollama.chat raises or answers without message content,
\* generate_tweet_draft and generate_image_prompt return None and do not raise
\* (so does generate_tweet_from_selected_article); the script, given no draft,
\* displays nothing and requests no image prompt; given no image prompt, it
\* displays only the draft.
C13_GenerationFailureNonFatal ==
    /\ ((IsDraftCall \/ IsImageCall \/ IsSelectedCall) /\ ChatFailed(last.answer)) =>
          (last.ret = Nothing /\ ~last.raised)
    /\ ChatFailed(run.draft_answer) =>
          /\ run.draft_tweet = Nothing
          /\ pc \in {"finished"}
    /\ (run.generation_entered /\ ~TruthySeq(run.draft_tweet)) =>
          /\ run.shown = <<>>
          /\ run.image_prompt_request = Nothing
          /\ run.image_answer = "none"
          /\ Count("chat", run.ext) <= 1
          /\ pc = "finished"
    /\ ChatFailed(run.image_answer) =>
          /\ run.image_prompt = Nothing
          /\ run.shown = <<"generated_tweet.txt">>
          /\ pc = "finished"

C13_Witness ==
    /\ run.generation_entered
    /\ run.draft_answer = "malformed"
    /\ pc = "finished"

\* C14: one request issues the article download, the query embedding, the
\* store query, the draft generation call and the image-prompt generation call
\* at most once each; a failed call is the last of its kind in the request, and
\* the failure shows as None (download, generation) or as the empty list
\* (retrieval).
C14_NoRetries ==
    /\ IsSelectedCall =>
          /\ \A x \in {"download", "encode", "query", "chat"} :
                Count(x, last.ext) <= 1
          /\ last.download = "raise" =>
                (last.ext = <<"download">> /\ last.ret = Nothing)
          /\ last.retrieval \in {"Error querying ChromaDB",
                                 "Failed to generate query embedding"} =>
                last.relevant_tweets = Just(<<>>)
          /\ ChatFailed(last.answer) => last.ret = Nothing
    /\ IsFindCall =>
          /\ Count("encode", last.ext) <= 1
          /\ Count("query", last.ext) <= 1
          /\ last.log # "Found" => last.ret = <<>>
    /\ (IsDraftCall \/ IsImageCall) => Count("chat", last.ext) <= 1
    /\ \A x \in {"download", "encode", "query"} : Count(x, run.ext) <= 1
    /\ Count("chat", run.ext) =
          (IF run.draft_answer = "none" THEN 0 ELSE 1)
          + (IF run.image_answer = "none" THEN 0 ELSE 1)
    /\ run.retrieval \in {"Error querying ChromaDB",
                          "Failed to generate query embedding"} =>
          run.relevant_tweets = Just(<<>>)
    /\ ChatFailed(run.draft_answer) => run.draft_tweet = Nothing
    /\ ChatFailed(run.image_answer) => run.image_prompt = Nothing

C14_Witness ==
    /\ IsSelectedCall
    /\ last.download = "raise"
    /\ Count("download", last.ext) = 1

\* C15: no step after construction changes embedding_model, ollama_available,
\* the news client or whether a collection is attached.
C15_FlagsWrittenOnlyAtConstruction ==
    [][/\ embedding_model' = embedding_model
       /\ ollama_available' = ollama_available
       /\ newsapi' = newsapi
       /\ IsNone(chroma_collection') = IsNone(chroma_collection)]_vars

C15_Witness ==
    /\ IsDraftCall
    /\ last.answer = "raise"
    /\ last.ret = Nothing
    /\ ollama_available

\* C16: construction never raises; the embedding model, the collection and the
\* generation service are each marked by their own outcome only; with the
\* embedding model or the collection missing find_relevant_tweets returns the
\* empty list without an external call, and with the generation service
\* missing the generation operations return None without raising.
C16_InitFailuresNeverRaise ==
    /\ pc # "init_failed"
    /\ embedding_model = (boot.embed = "ok")
    /\ IsNone(chroma_collection) = (boot.chroma.kind # "found")
    /\ ollama_available = (boot.ollama = "ok")
    /\ (IsFindCall /\ (boot.embed = "raise" \/ boot.chroma.kind # "found")) =>
          (last.ret = <<>> /\ last.ext = <<>> /\ ~last.raised)
    /\ ((IsDraftCall \/ IsImageCall \/ IsSelectedCall) /\ boot.ollama = "raise") =>
          (last.ret = Nothing /\ ~last.raised /\ ~InSeq("chat", last.ext))

C16_Witness ==
    /\ boot.embed = "raise"
    /\ boot.chroma.kind = "found"
    /\ boot.ollama = "ok"
    /\ IsFindCall
    /\ last.ret = <<>>

\* C19: no step after construction changes the collection: its items, their
\* ids, embeddings and texts stay as they were.
C19_CollectionReadOnly ==
    [][chroma_collection' = chroma_collection]_vars

C19_Witness ==
    /\ IsFindCall
    /\ last.log = "Found"
    /\ Len(last.ret) > 0
    /\ ~IsNone(chroma_collection)
    /\ chroma_collection = TweetGeneratorAgent_init(boot).chroma_collection

\* the place of an external call in the fixed order of a request
Rank(x) ==
    CASE x = "headlines" -> 0
      [] x = "download" -> 1
      [] x = "encode" -> 2
      [] x = "query" -> 3
      [] OTHER -> 4

Ordered(ext) == \A i, j \in 1..Len(ext) : i < j => Rank(ext[i]) <= Rank(ext[j])

\* C20: the external calls of a request are made in the order download,
\* retrieval (encode, store query), draft generation, image-prompt generation;
\* retrieval is consulted only with non-empty article content at hand; the
\* draft prompt is built from the list retrieval returned; the image prompt is
\* requested only for a non-empty draft and is built from that draft.
C20_FixedOrder ==
    /\ IsSelectedCall =>
          /\ Ordered(last.ext)
          /\ last.relevant_tweets # Nothing => TruthySeq(last.full_content)
          /\ InSeq("encode", last.ext) => TruthySeq(last.full_content)
          /\ InSeq("chat", last.ext) =>
                /\ last.relevant_tweets # Nothing
                /\ last.prompt = Just(DraftPrompt(last.article_title,
                                                  last.full_content[1],
                                                  last.relevant_tweets))
    /\ Ordered(run.ext)
    /\ run.relevant_tweets # Nothing =>
          TruthySeq(run.final_full_article_content)
    /\ run.draft_answer # "none" =>
          /\ run.relevant_tweets # Nothing
          /\ run.draft_prompt =
                Just(DraftPrompt(run.final_selected_article_title,
                                 run.final_full_article_content[1],
                                 run.relevant_tweets))
    /\ run.image_answer # "none" =>
          /\ TruthySeq(run.draft_tweet)
          /\ run.image_prompt_request =
                Just(ImagePrompt(run.final_selected_article_title,
                                 run.draft_tweet))

C20_Witness ==
    /\ IsSelectedCall
    /\ last.ext = <<"download", "encode", "query", "chat">>
    /\ last.answer = "ok"

----------------------------------------------------------------------------
(* The population script (populate_db.py)                                   *)

MaxRecords == 3     \* lines of the bulk file

SEP == "|"

\* lines of the bulk file: empty, blank, plain, padded, several fields, an
\* empty first field, inner blank
Lines ==
    { <<>>, <<" ">>, <<"a">>, <<" ", "b", " ">>, <<"a", "|", "b">>,
      <<"|", "a">>, <<"b", " ", "a">> }

FileMissing == [kind |-> "missing", lines |-> <<>>]
FileUnreadable(lines) == [kind |-> "unreadable", lines |-> lines]
FileOf(lines) == [kind |-> "ok", lines |-> lines]

\* the file is absent, breaks off with an error after some rows, or is read
\* to its end
Files ==
    {FileMissing}
    \cup {FileUnreadable(ls) : ls \in SeqsUpTo(Lines, 1)}
    \cup {FileOf(ls) : ls \in SeqsUpTo(Lines, MaxRecords)}

\* csv.reader(delimiter="|", quoting=QUOTE_NONE) on one line: the fields
\* between the delimiters; an empty line gives the empty row
RECURSIVE Fields(_)
Fields(line) ==
    IF \E i \in 1..Len(line) : line[i] = SEP
    THEN LET i == CHOOSE k \in 1..Len(line) :
                     /\ line[k] = SEP
                     /\ \A m \in 1..(k - 1) : line[m] # SEP
         IN <<SubSeq(line, 1, i - 1)>> \o Fields(SubSeq(line, i + 1, Len(line)))
    ELSE <<line>>

CsvRow(line) == IF line = <<>> THEN <<>> ELSE Fields(line)

\* the loop over the rows from row i on: the tweets kept and the rows warned
\* about
RECURSIVE LoadRows(_, _)
LoadRows(lines, i) ==
    IF i > Len(lines) THEN [tweets |-> <<>>, warnings |-> <<>>]
    ELSE LET row == CsvRow(lines[i])
             rest == LoadRows(lines, i + 1)
         IN IF row # <<>> /\ Strip(row[1]) # <<>>
            THEN [tweets |-> <<Strip(row[1])>> \o rest.tweets,
                  warnings |-> rest.warnings]
            ELSE IF row # <<>>
            THEN [tweets |-> rest.tweets,
                  warnings |-> <<[row |-> i, what |-> "empty tweet"]>>
                               \o rest.warnings]
            ELSE [tweets |-> rest.tweets,
                  warnings |-> <<[row |-> i, what |-> "empty row"]>>
                               \o rest.warnings]

\* variant of load_tweets_from_csv: a missing file is not caught
load_tweets_from_csv_uncaught(file) ==
    IF file.kind = "missing"
    THEN [ret |-> <<>>, warnings |-> <<>>, raised |-> TRUE,
          log |-> "CSV file not found"]
    ELSE IF file.kind = "unreadable"
    THEN [ret |-> <<>>, warnings |-> LoadRows(file.lines, 1).warnings,
          raised |-> FALSE, log |-> "Error reading CSV file"]
    ELSE [ret |-> LoadRows(file.lines, 1).tweets,
          warnings |-> LoadRows(file.lines, 1).warnings,
          raised |-> FALSE, log |-> "Successfully loaded"]

load_tweets_from_csv(file) ==
    IF file.kind = "missing"
    THEN [ret |-> <<>>, warnings |-> <<>>, raised |-> FALSE,
          log |-> "CSV file not found"]
    ELSE IF file.kind = "unreadable"
    THEN [ret |-> <<>>, warnings |-> LoadRows(file.lines, 1).warnings,
          raised |-> FALSE, log |-> "Error reading CSV file"]
    ELSE [ret |-> LoadRows(file.lines, 1).tweets,
          warnings |-> LoadRows(file.lines, 1).warnings,
          raised |-> FALSE, log |-> "Successfully loaded"]

\* initialize_db: store is Nothing while the collection does not exist;
\* get_or_create_collection creates it empty
initialize_db(store, client) ==
    IF client = "raise"
    THEN [collection |-> FALSE, store |-> store]
    ELSE [collection |-> TRUE,
          store |-> IF IsNone(store) THEN Just(<<>>) ELSE store]

\* model.encode on a tweet text
CharCode(c) == CASE c = "a" -> 1 [] c = "b" -> 2 [] OTHER -> 0

RECURSIVE EmbedText(_)
EmbedText(t) ==
    IF t = <<>> THEN 0 ELSE CharCode(Head(t)) + 3 * EmbedText(Tail(t))

\* variant of TweetItems: every item gets the id tweet_0
TweetItems_same_id(tweets) ==
    [i \in 1..Len(tweets) |->
        [id |-> 0, embedding |-> EmbedText(tweets[i]), text |-> tweets[i]]]

\* the ids tweet_0.., the metadatas {"text": tweet} and the embeddings handed
\* to collection.add
TweetItems(tweets) ==
    [i \in 1..Len(tweets) |->
        [id |-> i - 1, embedding |-> EmbedText(tweets[i]), text |-> tweets[i]]]

Ids(items) == {items[i].id : i \in 1..Len(items)}

\* collection.add: the request fails as a whole (answer "raise", an id twice
\* in the request, or, where the library rejects them, an id already stored);
\* otherwise the items with new ids are appended and items whose id is already
\* stored are left out; a stored item is never replaced
ChromaAdd(items, new, answer, duplicates) ==
    IF answer = "raise" \/ Cardinality(Ids(new)) # Len(new)
    THEN [items |-> items, raised |-> TRUE]
    ELSE IF Ids(new) \cap Ids(items) # {} /\ duplicates = "rejected"
    THEN [items |-> items, raised |-> TRUE]
    ELSE [items |-> items \o SelectSeq(new, LAMBDA it : it.id \notin Ids(items)),
          raised |-> FALSE]

populate_vector_db(store, collection, tweets, enc, add, duplicates) ==
    IF tweets = <<>>
    THEN [store |-> store, log |-> <<"No tweets to process.">>]
    ELSE IF ~collection
    THEN [store |-> store,
          log |-> <<"DB collection not available. Cannot populate.">>]
    ELSE LET warn == IF Len(store[1]) > 0
                     THEN <<"Collection already contains items">> ELSE <<>>
         IN IF enc = "raise"
            THEN [store |-> store,
                  log |-> warn \o <<"Error during embedding generation or DB population">>]
            ELSE LET a == ChromaAdd(store[1], TweetItems(tweets), add, duplicates)
                 IN IF a.raised
                    THEN [store |-> store,
                          log |-> warn \o <<"Error during embedding generation or DB population">>]
                    ELSE [store |-> Just(a.items),
                          log |-> warn \o <<"Successfully added tweets and embeddings to the database.">>]

\* the database before the script runs: no collection, or the collection an
\* earlier run left
PopStores ==
    {Nothing}
    \cup {Just(TweetItems(ts)) : ts \in SeqsUpTo({<<"a">>, <<"b">>}, MaxItems)}

InitPopulate ==
    /\ Constructed([newsclient |-> "ok", embed |-> "ok",
                    chroma |-> ChromaMissing, ollama |-> "ok"])
    /\ last = NoCall
    /\ chat_issued = FALSE
    /\ run = NoRun
    /\ resp = <<>>
    /\ article = <<>>
    /\ \E file \in Files, store \in PopStores :
          pop = [pc |-> "main", file |-> file, store |-> store,
                 store0 |-> store, embedding_model |-> FALSE,
                 tweets_list |-> <<>>, warnings |-> <<>>,
                 tweet_collection |-> FALSE,
                 enc |-> "none", add |-> "none", duplicates |-> "none",
                 log |-> <<>>]

\* lines 136-144: the embedding model is loaded
PopLoadModel ==
    /\ pop.pc = "main"
    /\ \E m \in {"ok", "raise"} :
          pop' = IF m = "ok"
                 THEN [pop EXCEPT !.embedding_model = TRUE, !.pc = "load"]
                 ELSE [pop EXCEPT !.pc = "done",
                          !.log = Append(@, "Embedding model could not be loaded. DB population aborted.")]
    /\ UNCHANGED <<agent_flags, last, chat_issued, pc, run, resp, article>>

\* lines 146-148, 155-156; the call is outside any try block, an exception
\* of load_tweets_from_csv would end the script
PopLoadTweets ==
    /\ pop.pc = "load"
    /\ LET r == load_tweets_from_csv(pop.file)
       IN pop' = IF r.raised
                 THEN [pop EXCEPT !.pc = "crashed"]
                 ELSE IF r.ret # <<>>
                 THEN [pop EXCEPT !.tweets_list = r.ret,
                                  !.warnings = r.warnings,
                                  !.log = Append(@, r.log),
                                  !.pc = "init_db"]
                 ELSE [pop EXCEPT !.tweets_list = r.ret,
                                  !.warnings = r.warnings,
                                  !.log = Append(Append(@, r.log), "No tweets loaded from CSV. DB will not be populated."),
                                  !.pc = "done"]
    /\ UNCHANGED <<agent_flags, last, chat_issued, pc, run, resp, article>>

\* lines 149-151
PopInitializeDb ==
    /\ pop.pc = "init_db"
    /\ \E client \in {"ok", "raise"} :
          LET r == initialize_db(pop.store, client)
          IN pop' = [pop EXCEPT !.store = r.store,
                                !.tweet_collection = r.collection,
                                !.pc = IF r.collection THEN "populate" ELSE "done"]
    /\ UNCHANGED <<agent_flags, last, chat_issued, pc, run, resp, article>>

\* lines 152-153
PopPopulate ==
    /\ pop.pc = "populate"
    /\ \E enc \in {"ok", "raise"} :
       \E add \in Consulted(enc = "ok", {"ok", "raise"}, "none") :
       \E duplicates \in Consulted(/\ add = "ok"
                                   /\ Ids(TweetItems(pop.tweets_list))
                                         \cap Ids(pop.store[1]) # {},
                                   {"ignored", "rejected"}, "none") :
          LET r == populate_vector_db(pop.store, pop.tweet_collection,
                                      pop.tweets_list, enc, add, duplicates)
          IN pop' = [pop EXCEPT !.store = r.store, !.enc = enc, !.add = add,
                                !.duplicates = duplicates,
                                !.log = @ \o r.log, !.pc = "done"]
    /\ UNCHANGED <<agent_flags, last, chat_issued, pc, run, resp, article>>

NextPopulate == PopLoadModel \/ PopLoadTweets \/ PopInitializeDb \/ PopPopulate

SpecPopulate == InitPopulate /\ [][NextPopulate]_vars

\* the first field of a line
FirstField(line) ==
    IF \E i \in 1..Len(line) : line[i] = SEP
    THEN SubSeq(line, 1, (CHOOSE k \in 1..Len(line) :
                             /\ line[k] = SEP
                             /\ \A m \in 1..(k - 1) : line[m] # SEP) - 1)
    ELSE line

\* the lines that carry a record: those with a non-blank first field
ValidRecords(lines) == SelectSeq(lines, LAMBDA l : Strip(FirstField(l)) # <<>>)

\* the script came to populate_vector_db, the embeddings were computed and the
\* store took the request
Populated == pop.pc = "done" /\ pop.enc = "ok" /\ pop.add = "ok"

WasEmpty == pop.store0 \in {Nothing, Just(<<>>)}

\* C17 as stated: after populating an empty collection the collection holds n
\* items for the n valid records, under distinct ids, the text of each equal
\* to its source line.
C17_AsStated ==
    (Populated /\ WasEmpty) =>
        LET v == ValidRecords(pop.file.lines)
            items == pop.store[1]
        IN /\ Len(items) = Len(v)
           /\ Cardinality(Ids(items)) = Len(v)
           /\ \A i \in 1..Len(v) : items[i].text = v[i]

\* C17: after populating an empty collection, the embeddings computed and the
\* add accepted, the collection holds n items for the n valid records, under
\* the distinct ids tweet_0..tweet_(n-1), the text of each equal to the
\* whitespace-trimmed first field of its source line.
C17_ItemsAreTrimmedFirstFields ==
    (Populated /\ WasEmpty) =>
        LET v == ValidRecords(pop.file.lines)
            items == pop.store[1]
        IN /\ Len(items) = Len(v)
           /\ Cardinality(Ids(items)) = Len(v)
           /\ \A i \in 1..Len(v) :
                 /\ items[i].id = i - 1
                 /\ items[i].text = Strip(FirstField(v[i]))
                 /\ items[i].embedding = EmbedText(items[i].text)

C17_Witness ==
    /\ Populated
    /\ WasEmpty
    /\ Len(pop.store[1]) = 3
    /\ \E i \in 1..3 : pop.store[1][i].text = <<"b", " ", "a">>

\* C18: after populate_vector_db ran, the embeddings computed and the add
\* request taken by the store, every id tweet_i of the file is held by exactly
\* one item, which carries the i-th text of the file and its embedding.
C18_InsertOrReplaceById ==
    Populated =>
        \A i \in 1..Len(pop.tweets_list) :
            /\ Cardinality({j \in 1..Len(pop.store[1]) :
                               pop.store[1][j].id = i - 1}) = 1
            /\ \A j \in 1..Len(pop.store[1]) :
                  pop.store[1][j].id = i - 1 =>
                     /\ pop.store[1][j].text = pop.tweets_list[i]
                     /\ pop.store[1][j].embedding = EmbedText(pop.tweets_list[i])

----------------------------------------------------------------------------
(* Marker pairing                                                           *)

\* the positions removed from s scanning from pos: each span starts at the
\* leftmost opening marker at or after pos, ends with the first closing
\* marker after it and the whitespace that follows, and the scan goes on
\* behind the span
RECURSIVE RemovedFrom(_, _)
RemovedFrom(s, pos) ==
    LET o == IF pos > Len(s) THEN 0 ELSE Find(s, pos, OPEN)
        c == IF o = 0 THEN 0 ELSE Find(s, o + Len(OPEN), CLOSE)
    IN IF c = 0 THEN {}
       ELSE LET e == SkipSpace(s, c + Len(CLOSE))
            IN (o..(e - 1)) \cup RemovedFrom(s, e)

\* the characters of s at the positions from i on that are not in R
RECURSIVE Pick(_, _, _)
Pick(s, i, R) ==
    IF i > Len(s) THEN <<>>
    ELSE (IF i \in R THEN <<>> ELSE <<s[i]>>) \o Pick(s, i + 1, R)

\* an opening marker of s with no closing marker after it
HasUnclosedOpen(s) ==
    \E i \in 1..Len(s) :
        MatchAt(s, i, OPEN) /\ Find(s, i + Len(OPEN), CLOSE) = 0

\* a closing marker of s with no opening marker before it
HasUnopenedClose(s) ==
    \E j \in 1..Len(s) :
        /\ MatchAt(s, j, CLOSE)
        /\ \A i \in 1..(j - Len(OPEN)) : ~MatchAt(s, i, OPEN)

\* C21: the markers are paired flat, left to right: the returned text is the
\* response without the spans that each start at the leftmost opening marker
\* not yet consumed and end with the first closing marker after it; an
\* opening marker inside a span does not extend it, so what follows the first
\* closing marker stays, a second closing marker included; an opening marker
\* with no later closing marker and a closing marker with no earlier opening
\* marker are in the returned text.
C21_FlatPairsLeftToRight ==
    ((IsDraftCall \/ IsImageCall) /\ ~IsNone(last.ret)) =>
        LET s == Strip(resp)
            out == last.ret[1]
        IN /\ out = Strip(Pick(s, 1, RemovedFrom(s, 1)))
           /\ HasUnclosedOpen(s) => Find(out, 1, OPEN) # 0
           /\ HasUnopenedClose(s) => Find(out, 1, CLOSE) # 0
           /\ \A A, B, C \in {<<>>, <<"a">>, <<"a", "a">>} :
                 resp = OPEN \o A \o OPEN \o B \o CLOSE \o C \o CLOSE =>
                    out = C \o CLOSE

C21_Witness ==
    /\ IsDraftCall
    /\ resp = OPEN \o OPEN \o CLOSE \o <<"a">> \o CLOSE
    /\ last.ret = Just(<<"a">> \o CLOSE)

\* load_tweets_from_csv has returned
Loaded == pop.pc \in {"init_db", "populate", "done", "crashed"} /\ pop.embedding_model

\* the rows of the file whose first field is not blank
KeptRows(lines) == {i \in 1..Len(lines) : Strip(FirstField(lines[i])) # <<>>}

\* the k-th smallest element of the set of numbers S
Nth(S, k) == CHOOSE i \in S : Cardinality({j \in S : j <= i}) = k

\* C22: load_tweets_from_csv returns the whitespace-trimmed first fields of
\* the rows whose first field is not blank, in file order; every other row,
\* empty or with a blank first field, gives one warning with its row number
\* and no tweet; a missing file and a file that cannot be read to its end give
\* the empty list, and no exception leaves the function.
C22_LoadKeepsTrimmedFirstFields ==
    Loaded =>
        /\ pop.pc # "crashed"
        /\ pop.file.kind # "ok" => pop.tweets_list = <<>>
        /\ pop.file.kind = "ok" =>
              LET lines == pop.file.lines
                  kept == KeptRows(lines)
              IN /\ Len(pop.tweets_list) = Cardinality(kept)
                 /\ \A k \in 1..Len(pop.tweets_list) :
                       /\ pop.tweets_list[k] = Strip(FirstField(lines[Nth(kept, k)]))
                       /\ pop.tweets_list[k] # <<>>
                 /\ Len(pop.warnings) = Len(lines) - Cardinality(kept)
                 /\ {pop.warnings[k].row : k \in 1..Len(pop.warnings)}
                       = (1..Len(lines)) \ kept
                 /\ \A k \in 1..Len(pop.warnings) :
                       pop.warnings[k].what =
                          IF lines[pop.warnings[k].row] = <<>>
                          THEN "empty row" ELSE "empty tweet"

C22_Witness ==
    /\ Loaded
    /\ pop.file = FileOf(<< <<" ", "b", " ">>, <<>>, <<"a", "|", "b">> >>)
    /\ pop.tweets_list = << <<"b">>, <<"a">> >>
    /\ Len(pop.warnings) = 1

----------------------------------------------------------------------------
(* Start of the interactive script                                          *)

\* the script is past its component checks
InScript == pc \in {"choose_input", "select_article", "generate", "finished", "crashed"}

\* the three components the script tests before the interaction
CriticalAvailable == newsapi /\ embedding_model /\ ollama_available

\* C23: the script asks for input, and reaches the headline request, the
\* download, retrieval and generation, only with the news client, the
\* embedding model and the generation service all available; with one of them
\* missing it finishes at once without any external request; with all three
\* available it does start, and with only the collection missing the
\* generation block runs with an empty example list: no encode, no store
\* query, the placeholder in the prompt, and the generation call is made.
C23_InteractionNeedsThreeComponents ==
    /\ pc \in {"choose_input", "select_article", "generate", "crashed"} =>
          CriticalAvailable
    /\ run # NoRun => CriticalAvailable
    /\ (InScript /\ ~CriticalAvailable) =>
          /\ pc = "finished"
          /\ run = NoRun
          /\ ~chat_issued
    /\ (pc = "finished" /\ run.input_method = "") => ~CriticalAvailable
    /\ (run.generation_entered /\ IsNone(chroma_collection)) =>
          /\ run.retrieval = "not initialized"
          /\ run.relevant_tweets = Just(<<>>)
          /\ Count("encode", run.ext) = 0
          /\ Count("query", run.ext) = 0
          /\ run.draft_answer # "none"
          /\ Count("chat", run.ext) >= 1
          /\ run.draft_prompt # Nothing
          /\ run.draft_prompt[1].example_tweets_formatted = << <<NO_EXAMPLES>> >>

C23_Witness ==
    /\ pc = "finished"
    /\ IsNone(chroma_collection)
    /\ CriticalAvailable
    /\ run.generation_entered
    /\ TruthySeq(run.draft_tweet)
    /\ run.relevant_tweets = Just(<<>>)

====
